---- MODULE Spec2Model ----
(***************************************************************************)
(* Model of the opportunity scorer of the BTC dip monitor                  *)
(* (src/btc_monitor/indicators.py, analyze_opportunity).                   *)
(*                                                                         *)
(* Number representation.  Prices are integers in cents, so that the       *)
(* moving average 104166.67 of the strong-buy scenario is exact.           *)
(* Percentages given as parameters (min_drop, take_profit, ...) are        *)
(* integers; resistance_factor is in tenths (0.6 is 6).  A percentage the  *)
(* code computes by a division ((a - b) / b * 100) is kept as the exact    *)
(* fraction [num, den] with den > 0, and compared by cross-multiplying.    *)
(* Every price of the model is a multiple of 1000 cents, which makes       *)
(* price * pct / 100 and distance * factor / 10 exact integer divisions.   *)
(***************************************************************************)
EXTENDS Integers, Sequences, FiniteSets, TLC

\* the opportunity scorer: arguments, wall clock, returned Analysis, position
\* of the caller, number of calls made, a result the caller kept
VARIABLES args, clock, analysis, pc, calls, earlier

\* the historical series and what the indicator functions return for it
VARIABLES df, hparams, sr, hpc

\* the drop events found in the series and their recovery results
VARIABLES drops, recovery

\* the names of the columns of the caller's series
VARIABLES columns

\* a series of closing prices and what calculate_rsi computes for it
VARIABLES closes, rsi_last

\* the signal log file of one symbol, the file as it was before the last
\* call of save_signal, and that call (its signal and what it returned)
VARIABLES file, before, saved
\* the last call of get_latest: its n, the list load_all gave it, its result
VARIABLES latest

\* one call of get_historical_with_retry: its retries argument, the loop
\* index, its position, the sleeps made, the responses received, the value
\* returned
VARIABLES retries, attempt, rpc, waits, responses, result

\* the poll loop of one symbol (monitor_symbol): its position, the number of
\* the cycle, whether a notifier was passed, the settings, the requests made
\* in this cycle, the analysis of this cycle, the calls of save_signal in
\* this cycle, how the cycle went, the sleep being made
VARIABLES mpc, cycle, telegram, settings, requests, manalysis, saves, status, nap

\* the notifications attempted in this cycle, how the last attempt went,
\* whether the cancellation of the task has been requested, and the number
\* of exceptions the loop has caught
VARIABLES sends, delivered, cancel, caught

\* what the last fetch of this cycle gave
VARIABLES got

\* the tasks of run_monitor_async: the SYMBOLS list, the task of each symbol,
\* which task has read or written which log file, and the shared notifier
VARIABLES symbols, tasks, touched, notifier

scorerVars == <<args, clock, analysis, pc, calls, earlier>>

seriesVars == <<df, hparams, sr, hpc, drops, recovery, columns, closes, rsi_last>>

storageVars == <<file, before, saved, latest>>

retryVars == <<retries, attempt, rpc, waits, responses, result>>

monitorVars ==
    <<mpc, cycle, telegram, settings, requests, manalysis, saves, status, nap,
      sends, delivered, cancel, caught, got>>

\* the parts of the program that do input and output
taskVars == <<symbols, tasks, touched, notifier>>

ioVars == <<storageVars, retryVars, monitorVars, taskVars>>

vars == <<scorerVars, seriesVars, ioVars>>

\* what an action of the scorer leaves alone
outsideScorer == <<seriesVars, ioVars>>

\* what an action on the historical series leaves alone
outsideSeries == <<scorerVars, ioVars>>

\* what an action on the signal log leaves alone
outsideStorage == <<scorerVars, seriesVars, retryVars, monitorVars, taskVars>>

\* what a step of get_historical_with_retry leaves alone
outsideRetry == <<scorerVars, seriesVars, storageVars, monitorVars, taskVars>>

\* what a step of the poll loop leaves alone, the signal log apart
outsideMonitor == <<scorerVars, seriesVars, retryVars, taskVars>>

\* what a step of the tasks of run_monitor_async leaves alone
outsideTasks == <<scorerVars, seriesVars, storageVars, retryVars, monitorVars>>

\* ------------------------------------------------------------------ bounds
\* longest support / resistance list drawn as an input (the code keeps 5)
MaxLevels == 2
\* latest reading of the wall clock
MaxClock == 1
\* number of calls of analyze_opportunity in one behaviour of SpecCalls
MaxCalls == 3
\* longest series of arbitrary bars given to calculate_support_resistance
MaxShort == 3
\* longest series of distinct bars given to calculate_support_resistance
MaxBars == 6
\* longest series given to find_drops_advanced and analyze_recovery
MaxDays == 4
\* longest signal log to which save_signal is still called
MaxLogs == 3
\* largest retries argument of get_historical_with_retry
MaxRetries == 3
\* number of poll cycles of monitor_symbol in one behaviour
MaxCycles == 2
\* longest SYMBOLS list
MaxSymbols == 2
\* largest n passed to get_latest
MaxLatest == 3
\* longest series of closing prices given to calculate_rsi
MaxPrices == 4

\* ------------------------------------------------------- Python primitives
\* None of the analysis dict; the code only ever tests these entries for
\* truthiness, where None and 0 behave alike
None == 0

Truthy(x) == x # None

Usd(x) == x * 100

Min(a, b) == IF a <= b THEN a ELSE b

\* (n / d) * 100 as an exact fraction
Percent(n, d) == [num |-> n * 100, den |-> d]

\* a parameter given in percent, as a fraction
Whole(p) == [num |-> p, den |-> 1]

\* fraction r <= integer k, and r >= k (den > 0)
FracLE(r, k) == r.num <= k * r.den

FracGE(r, k) == r.num >= k * r.den

Reverse(s) == [i \in 1..Len(s) |-> s[Len(s) + 1 - i]]

RECURSIVE sorted(_)
sorted(s) ==
    IF s = <<>> THEN <<>>
    ELSE LET i == CHOOSE k \in 1..Len(s) : \A j \in 1..Len(s) : s[k] <= s[j]
         IN  <<s[i]>> \o sorted(SubSeq(s, 1, i - 1) \o SubSeq(s, i + 1, Len(s)))

sorted_reverse(s) == Reverse(sorted(s))

Range(s) == {s[i] : i \in 1..Len(s)}

\* ------------------------------------------------------ analyze_opportunity
\* The argument record `in` carries current_price, price_change_percent
\* (stats_24h), the parameters, and the values the indicator functions
\* return for df_historical: ma, rsi, supports, resistances.

\* mutated: the score starts from a count kept across calls
NewAnalysis_Stale(in, now) ==
    [timestamp    |-> now,
     price        |-> in.current_price,
     signals      |-> <<>>,
     entry_signal |-> FALSE,
     target_price |-> None,
     stop_loss    |-> None,
     score        |-> calls]

NewAnalysis(in, now) ==
    [timestamp    |-> now,
     price        |-> in.current_price,
     signals      |-> <<>>,
     entry_signal |-> FALSE,
     target_price |-> None,
     stop_loss    |-> None,
     score        |-> 0]

\* 1 mutated: the change is compared with min_drop without the sign
CheckDrop_Unsigned(a, in) ==
    LET drop_24h == in.price_change_percent
    IN  IF drop_24h <= in.min_drop
        THEN [a EXCEPT !.signals = Append(@, "24H DROP"), !.score = @ + 3]
        ELSE a

\* 1. 24h drop
CheckDrop(a, in) ==
    LET drop_24h == in.price_change_percent
    IN  IF drop_24h <= -in.min_drop
        THEN [a EXCEPT !.signals = Append(@, "24H DROP"), !.score = @ + 3]
        ELSE a

\* 2. moving average
CheckMovingAverage(a, in) ==
    LET ma      == in.ma
        ma_dist == Percent(in.current_price - ma, ma)
        a1      == ("ma" :> ma) @@ ("ma_distance" :> ma_dist) @@ a
    IN  IF FracLE(ma_dist, -in.ma_distance)
        THEN [a1 EXCEPT !.signals = Append(@, "BELOW MA"), !.score = @ + 2]
        ELSE a1

\* 3. RSI
CheckRSI(a, in) ==
    LET rsi == in.rsi
        a1  == ("rsi" :> rsi) @@ a
    IN  IF rsi < in.rsi_oversold
        THEN [a1 EXCEPT !.signals = Append(@, "RSI OVERSOLD"), !.score = @ + 2]
        ELSE a1

\* -2 <= diff_support <= 2
WithinSupport(current_price, support) ==
    LET diff_support == Percent(current_price - support, support)
    IN  FracGE(diff_support, -2) /\ FracLE(diff_support, 2)

\* the support loop, mutated: no break after the first support in range
RECURSIVE NearSupportLoop_NoBreak(_, _, _)
NearSupportLoop_NoBreak(a, supports, current_price) ==
    IF supports = <<>> THEN a
    ELSE IF WithinSupport(current_price, Head(supports))
         THEN NearSupportLoop_NoBreak(
                  [a EXCEPT !.signals = Append(@, "NEAR SUPPORT"), !.score = @ + 1],
                  Tail(supports), current_price)
         ELSE NearSupportLoop_NoBreak(a, Tail(supports), current_price)

\* for support in supports: ... break
RECURSIVE NearSupportLoop(_, _, _)
NearSupportLoop(a, supports, current_price) ==
    IF supports = <<>> THEN a
    ELSE IF WithinSupport(current_price, Head(supports))
         THEN [a EXCEPT !.signals = Append(@, "NEAR SUPPORT"), !.score = @ + 1]
         ELSE NearSupportLoop(a, Tail(supports), current_price)

\* 4. support and resistance levels
CheckSupport(a, in) ==
    LET a1 == ("supports" :> in.supports) @@ ("resistances" :> in.resistances) @@ a
    IN  NearSupportLoop(a1, in.supports, in.current_price)

\* first element of the scanned list that is > current_price, else None
RECURSIVE FirstAbove(_, _)
FirstAbove(levels, current_price) ==
    IF levels = <<>> THEN None
    ELSE IF Head(levels) > current_price THEN Head(levels)
         ELSE FirstAbove(Tail(levels), current_price)

\* mutated: the resistances are scanned in the order given (descending)
target_resistance_Unsorted(in) == FirstAbove(in.resistances, in.current_price)

target_resistance(in) == FirstAbove(sorted(in.resistances), in.current_price)

\* mutated: the whole distance to the resistance, resistance_factor ignored
partial_target_Full(in, resistance) ==
    LET distance_to_resistance == resistance - in.current_price
    IN  in.current_price + distance_to_resistance

partial_target(in, resistance) ==
    LET distance_to_resistance == resistance - in.current_price
    IN  in.current_price + (distance_to_resistance * in.resistance_factor) \div 10

max_target(in) == in.current_price + (in.current_price * in.max_take_profit) \div 100

\* mutated: the maximum-profit cap is not applied
final_target_Uncapped(in, resistance) == partial_target(in, resistance)

final_target(in, resistance) == Min(partial_target(in, resistance), max_target(in))

final_profit(in, resistance) ==
    Percent(final_target(in, resistance) - in.current_price, in.current_price)

\* 5a mutated: the minimum-profit threshold is not applied
ResistanceTarget_NoMinimum(a, in) ==
    LET r == target_resistance(in)
    IN  IF Truthy(r)
        THEN ("profit_percent" :> final_profit(in, r)) @@
             [a EXCEPT !.target_price = final_target(in, r)]
        ELSE a

\* 5a. target from the next resistance
ResistanceTarget(a, in) ==
    LET r == target_resistance(in)
    IN  IF Truthy(r) /\ FracGE(final_profit(in, r), in.take_profit)
        THEN ("profit_percent" :> final_profit(in, r)) @@
             [a EXCEPT !.target_price = final_target(in, r)]
        ELSE a

\* 5b. capped percentage when no target was set
FallbackTarget(a, in) ==
    IF ~Truthy(a.target_price)
    THEN LET target_percent == Min(in.take_profit, in.max_take_profit)
         IN  ("profit_percent" :> Whole(target_percent)) @@
             [a EXCEPT !.target_price =
                 in.current_price + (in.current_price * target_percent) \div 100]
    ELSE a

\* first element of the scanned list that is < current_price, else None
RECURSIVE FirstBelow(_, _)
FirstBelow(levels, current_price) ==
    IF levels = <<>> THEN None
    ELSE IF Head(levels) < current_price THEN Head(levels)
         ELSE FirstBelow(Tail(levels), current_price)

\* mutated: the highest support is taken without comparing it to the price
stop_support_Any(in) ==
    IF in.supports = <<>> THEN None ELSE Head(sorted_reverse(in.supports))

\* mutated: the supports are scanned in ascending order
stop_support_Ascending(in) == FirstBelow(sorted(in.supports), in.current_price)

stop_support(in) == FirstBelow(sorted_reverse(in.supports), in.current_price)

\* 6a mutated: the support is accepted whatever its distance
SupportStop_AnyDistance(a, in) ==
    LET s            == stop_support(in)
        stop_percent == Percent(in.current_price - s, in.current_price)
    IN  IF Truthy(s)
        THEN ("stop_percent" :> stop_percent) @@ [a EXCEPT !.stop_loss = s]
        ELSE a

\* 6a. stop at the next support
SupportStop(a, in) ==
    LET s            == stop_support(in)
        stop_percent == Percent(in.current_price - s, in.current_price)
    IN  IF Truthy(s) /\ FracLE(stop_percent, in.stop_loss * 2)
        THEN ("stop_percent" :> stop_percent) @@ [a EXCEPT !.stop_loss = s]
        ELSE a

\* 6b. fixed percentage when no stop was set
FallbackStop(a, in) ==
    IF ~Truthy(a.stop_loss)
    THEN ("stop_percent" :> Whole(in.stop_loss)) @@
         [a EXCEPT !.stop_loss =
             in.current_price - (in.current_price * in.stop_loss) \div 100]
    ELSE a

\* entry signal, mutated: the threshold score itself does not signal
EntrySignal_Strict(a) ==
    IF a.score > 3 THEN [a EXCEPT !.entry_signal = TRUE] ELSE a

\* entry signal
EntrySignal(a) ==
    IF a.score >= 3 THEN [a EXCEPT !.entry_signal = TRUE] ELSE a

analyze_opportunity(in, now) ==
    LET a1 == CheckDrop(NewAnalysis(in, now), in)
        a2 == CheckMovingAverage(a1, in)
        a3 == CheckRSI(a2, in)
        a4 == CheckSupport(a3, in)
        a5 == FallbackTarget(ResistanceTarget(a4, in), in)
        a6 == FallbackStop(SupportStop(a5, in), in)
    IN  EntrySignal(a6)

\* ------------------------------------------------------------------ inputs
\* strictly descending lists of at most n levels, as
\* calculate_support_resistance returns them
DescLists(S, n) ==
    UNION {{s \in [1..k -> S] : \A i \in 1..(k - 1) : s[i] > s[i + 1]} : k \in 0..n}

Prices == {Usd(97000), Usd(100000)}

Changes == {-6, -5, -2}

MovingAverages == {Usd(95000), Usd(100000), 10416667}

RsiValues == {25, 30, 50}

SupportLevels == {Usd(101500), Usd(98500), Usd(96000), Usd(92000)}

ResistanceLevels == {Usd(120000), Usd(108000), Usd(103000), Usd(100000), Usd(99000)}

\* settings.py / config.py defaults
DefaultConfig ==
    [min_drop |-> 5, ma_distance |-> 3, rsi_oversold |-> 30, ma_period |-> 7,
     stop_loss |-> 3, take_profit |-> 2, max_take_profit |-> 5,
     resistance_factor |-> 6]

Configs ==
    {[DefaultConfig EXCEPT !.take_profit = tp, !.resistance_factor = f,
                           !.stop_loss = sl] :
        tp \in {2, 6}, f \in {6, 10}, sl \in {0, 3}}
    \cup {[DefaultConfig EXCEPT !.min_drop = 6, !.ma_distance = 4,
                                !.rsi_oversold = 26]}

MarketData(prices, changes, mas, rsis, supports, resistances) ==
    [current_price : prices, price_change_percent : changes, ma : mas,
     rsi : rsis, supports : supports, resistances : resistances]

Inputs ==
    {m @@ c : m \in MarketData(Prices, Changes, MovingAverages, RsiValues,
                               DescLists(SupportLevels, MaxLevels),
                               DescLists(ResistanceLevels, MaxLevels)),
              c \in Configs}

\* scenario_strong_buy of tests/conftest.py with the parameters of
\* test_strong_buy_signal
StrongBuy ==
    [current_price |-> Usd(100000), price_change_percent |-> -6,
     ma |-> 10416667, rsi |-> 25,
     supports |-> <<Usd(96000), Usd(93000), Usd(90000)>>,
     resistances |-> <<Usd(115000), Usd(112000), Usd(108000)>>] @@ DefaultConfig

\* scenario_no_signal of tests/conftest.py with the parameters of
\* test_no_signal_scenario: price 100000, 24h change -2, RSI 50, MA 100500;
\* the support and resistance levels are whatever the clustering returns
NoSignalInputs ==
    {m @@ DefaultConfig :
        m \in MarketData({Usd(100000)}, {-2}, {Usd(100500)}, {50},
                         DescLists(SupportLevels, MaxLevels),
                         DescLists(ResistanceLevels, MaxLevels))}

\* the smaller input set of the repeated-call specification
RepeatInputs ==
    {m @@ c : m \in MarketData({Usd(100000)}, {-6, -2}, {10416667}, {25},
                               {<<>>, <<Usd(98500)>>, <<Usd(96000), Usd(92000)>>},
                               {<<>>, <<Usd(108000)>>}),
              c \in {DefaultConfig, [DefaultConfig EXCEPT !.take_profit = 6]}}

\* ----------------------------------------------------------------- actions
NoAnalysis == <<>>

\* no historical series is being analysed
SeriesIdle ==
    /\ df = <<>>
    /\ hparams = <<>>
    /\ sr = <<>>
    /\ hpc = "idle"
    /\ drops = <<>>
    /\ recovery = <<>>
    /\ columns = {}
    /\ closes = <<>>
    /\ rsi_last = <<>>

\* no call of the scorer is being made
ScorerIdle ==
    /\ args = <<>>
    /\ clock = 0
    /\ analysis = NoAnalysis
    /\ pc = "idle"
    /\ calls = 0
    /\ earlier = <<>>

\* no signal log is in use
StorageIdle ==
    /\ file = <<>>
    /\ before = <<>>
    /\ saved = <<>>
    /\ latest = <<>>

\* no call of get_historical_with_retry is being made
RetryIdle ==
    /\ retries = 0
    /\ attempt = 0
    /\ rpc = "idle"
    /\ waits = <<>>
    /\ responses = <<>>
    /\ result = <<>>

\* no poll loop is running
MonitorIdle ==
    /\ mpc = "idle"
    /\ cycle = 0
    /\ telegram = FALSE
    /\ settings = <<>>
    /\ requests = <<>>
    /\ manalysis = NoAnalysis
    /\ saves = 0
    /\ status = "idle"
    /\ nap = 0
    /\ sends = 0
    /\ delivered = "none"
    /\ cancel = FALSE
    /\ caught = 0
    /\ got = "nothing yet"

\* no tasks have been created
TasksIdle ==
    /\ symbols = <<>>
    /\ tasks = <<>>
    /\ touched = {}
    /\ notifier = <<>>

\* nothing is fetched, stored or sent
IoIdle == StorageIdle /\ RetryIdle /\ MonitorIdle /\ TasksIdle

Init ==
    /\ args \in Inputs \cup {StrongBuy} \cup NoSignalInputs
    /\ clock = 0
    /\ analysis = NoAnalysis
    /\ pc = "call"
    /\ calls = 0
    /\ earlier = <<>>
    /\ SeriesIdle
    /\ IoIdle

\* one call of analyze_opportunity, reading the clock for the timestamp
AnalyzeOpportunity ==
    /\ pc = "call"
    /\ analysis' = analyze_opportunity(args, clock)
    /\ pc' = "done"
    /\ calls' = calls + 1
    /\ UNCHANGED <<args, clock, earlier>>
    /\ UNCHANGED outsideScorer

\* time passes
Tick ==
    /\ clock < MaxClock
    /\ clock' = clock + 1
    /\ UNCHANGED <<args, analysis, pc, calls, earlier>>
    /\ UNCHANGED outsideScorer

\* the caller keeps the result of this call for a later comparison
Remember ==
    /\ pc = "done"
    /\ earlier = <<>>
    /\ earlier' = <<[args |-> args, analysis |-> analysis, index |-> calls]>>
    /\ UNCHANGED <<args, clock, analysis, pc, calls>>
    /\ UNCHANGED outsideScorer

\* the caller calls again, with any arguments
CallAgain ==
    /\ pc = "done"
    /\ calls < MaxCalls
    /\ args' \in RepeatInputs
    /\ pc' = "call"
    /\ UNCHANGED <<clock, analysis, calls, earlier>>
    /\ UNCHANGED outsideScorer

Next == AnalyzeOpportunity \/ Tick

Spec == Init /\ [][Next]_vars

InitCalls ==
    /\ args \in RepeatInputs
    /\ clock = 0
    /\ analysis = NoAnalysis
    /\ pc = "call"
    /\ calls = 0
    /\ earlier = <<>>
    /\ SeriesIdle
    /\ IoIdle

NextCalls == AnalyzeOpportunity \/ Tick \/ Remember \/ CallAgain

SpecCalls == InitCalls /\ [][NextCalls]_vars

\* ------------------------------------------------------------------ claims
Returned == pc = "done"

\* B(c) is 1 when c holds and 0 otherwise
B(c) == IF c THEN 1 ELSE 0

DropHolds == args.price_change_percent <= -args.min_drop

BelowMAHolds ==
    (args.current_price - args.ma) * 100 <= -args.ma_distance * args.ma

OversoldHolds == args.rsi < args.rsi_oversold

\* the supports within 2% of the price, the distance taken relative to the
\* support
NearSupports ==
    {s \in Range(args.supports) :
        /\ (args.current_price - s) * 100 <= 2 * s
        /\ (args.current_price - s) * 100 >= -2 * s}

\* C1: entry_signal is true if and only if the returned score is >= 3,
\* whatever the thresholds passed in
C1_EntryIffScoreAtLeast3 ==
    Returned => (analysis.entry_signal <=> analysis.score >= 3)

\* C1 witness: a call with non-default thresholds returns exactly the
\* threshold score and signals entry
C1_Witness ==
    /\ Returned
    /\ args.min_drop # DefaultConfig.min_drop
    /\ analysis.score = 3
    /\ analysis.entry_signal

\* C2: the score is the weighted sum of the four conditions, each counted
\* once, and signals has exactly one entry per condition that holds
C2_ScoreIsWeightedSum ==
    Returned =>
        /\ analysis.score = 3 * B(DropHolds) + 2 * B(BelowMAHolds)
                            + 2 * B(OversoldHolds) + B(NearSupports # {})
        /\ Len(analysis.signals) = B(DropHolds) + B(BelowMAHolds)
                                   + B(OversoldHolds) + B(NearSupports # {})
        /\ ("24H DROP" \in Range(analysis.signals)) <=> DropHolds
        /\ ("BELOW MA" \in Range(analysis.signals)) <=> BelowMAHolds
        /\ ("RSI OVERSOLD" \in Range(analysis.signals)) <=> OversoldHolds
        /\ ("NEAR SUPPORT" \in Range(analysis.signals)) <=> (NearSupports # {})

\* C2 witness: all four conditions hold and two supports are within 2%
C2_Witness ==
    /\ Returned
    /\ DropHolds /\ BelowMAHolds /\ OversoldHolds
    /\ Cardinality(NearSupports) >= 2
    /\ analysis.score = 8

\* the cap current_price * (1 + max_take_profit / 100)
Cap == args.current_price + (args.current_price * args.max_take_profit) \div 100

ResistancesAbove == {r \in Range(args.resistances) : r > args.current_price}

LowestResistanceAbove ==
    CHOOSE r \in ResistancesAbove : \A q \in ResistancesAbove : r <= q

\* current_price + (resistance - current_price) * resistance_factor
PartialOf(r) ==
    args.current_price + ((r - args.current_price) * args.resistance_factor) \div 10

\* C3: the target never exceeds the maximum-profit cap
C3_TargetAtMostCap ==
    Returned => analysis.target_price <= Cap

\* C3 witness: the partial target of the next resistance is above the cap
\* and the returned target is the cap
C3_Witness ==
    /\ Returned
    /\ ResistancesAbove # {}
    /\ PartialOf(LowestResistanceAbove) > Cap
    /\ analysis.target_price = Cap

\* C4 as stated: the target is at least current_price * (1 + take_profit/100)
C4_TargetAtLeastTakeProfit ==
    Returned =>
        analysis.target_price * 100 >= args.current_price * (100 + args.take_profit)

\* C4 amended: the target is at least
\* current_price * (1 + min(take_profit, max_take_profit) / 100)
C4_TargetAtLeastCappedTakeProfit ==
    Returned =>
        analysis.target_price * 100 >=
            args.current_price * (100 + Min(args.take_profit, args.max_take_profit))

\* C4 witness: the next resistance gives less than take_profit and the
\* target is the take_profit percentage instead
C4_Witness ==
    /\ Returned
    /\ args.take_profit <= args.max_take_profit
    /\ ResistancesAbove # {}
    /\ (PartialOf(LowestResistanceAbove) - args.current_price) * 100
            < args.take_profit * args.current_price
    /\ analysis.target_price * 100 = args.current_price * (100 + args.take_profit)

\* C5 as stated: the stop price is strictly below the current price
C5_StopBelowPrice ==
    Returned => analysis.stop_loss < args.current_price

\* C5 amended: with stop_loss > 0 the stop price is strictly below the
\* current price
C5_StopBelowPriceWhenPositive ==
    (Returned /\ args.stop_loss > 0) => analysis.stop_loss < args.current_price

\* C5 witness: the stop is a support level, found after skipping a support
\* above the price
C5_Witness ==
    /\ Returned
    /\ args.stop_loss > 0
    /\ \E s \in Range(args.supports) : s > args.current_price
    /\ analysis.stop_loss \in Range(args.supports)
    /\ analysis.stop_loss < args.current_price

\* the fallback target current_price * (1 + min(take_profit, max_take_profit)/100)
FallbackTargetPrice ==
    args.current_price +
        (args.current_price * Min(args.take_profit, args.max_take_profit)) \div 100

\* the target the derivation of C6 prescribes
PrescribedTarget ==
    IF ResistancesAbove = {} THEN FallbackTargetPrice
    ELSE LET final == Min(PartialOf(LowestResistanceAbove), Cap)
         IN  IF (final - args.current_price) * 100
                    >= args.take_profit * args.current_price
             THEN final
             ELSE FallbackTargetPrice

\* C6: the target is min(partial, cap) of the lowest resistance above the
\* price when that gives at least take_profit, and the capped take_profit
\* percentage in every other case
C6_TargetDerivation ==
    Returned => analysis.target_price = PrescribedTarget

\* C6 witness: two resistances above the price, and the target is the
\* partial target of the lower one, below the cap
C6_Witness ==
    /\ Returned
    /\ Cardinality(ResistancesAbove) >= 2
    /\ analysis.target_price = PartialOf(LowestResistanceAbove)
    /\ analysis.target_price < Cap
    /\ analysis.target_price # FallbackTargetPrice

SupportsBelow == {s \in Range(args.supports) : s < args.current_price}

HighestSupportBelow ==
    CHOOSE s \in SupportsBelow : \A q \in SupportsBelow : s >= q

FallbackStopPrice ==
    args.current_price - (args.current_price * args.stop_loss) \div 100

\* the stop the derivation of C7 prescribes
PrescribedStop ==
    IF /\ SupportsBelow # {}
       /\ (args.current_price - HighestSupportBelow) * 100
              <= 2 * args.stop_loss * args.current_price
    THEN HighestSupportBelow
    ELSE FallbackStopPrice

\* C7: the stop is the highest support below the price when it is within
\* 2 * stop_loss percent, and current_price * (1 - stop_loss/100) otherwise;
\* a lower support is never the stop
C7_StopDerivation ==
    Returned =>
        /\ analysis.stop_loss = PrescribedStop
        /\ analysis.stop_loss \in SupportsBelow
               => analysis.stop_loss = HighestSupportBelow

\* C7 witness: two supports below the price, the higher one is the stop
C7_Witness ==
    /\ Returned
    /\ Cardinality(SupportsBelow) >= 2
    /\ analysis.stop_loss = HighestSupportBelow
    /\ analysis.stop_loss # FallbackStopPrice

\* C8: with stop_loss > 0, 0 < stop_percent <= 2 * stop_loss and the stop
\* price is at least current_price * (1 - 2 * stop_loss / 100)
C8_StopDistanceBounded ==
    (Returned /\ args.stop_loss > 0) =>
        /\ analysis.stop_percent.num > 0
        /\ analysis.stop_percent.num <= 2 * args.stop_loss * analysis.stop_percent.den
        /\ analysis.stop_loss * 100 >= args.current_price * (100 - 2 * args.stop_loss)

\* C8 witness: the only support below the price is further than
\* 2 * stop_loss percent, and the stop is the percentage fallback
C8_Witness ==
    /\ Returned
    /\ args.stop_loss > 0
    /\ SupportsBelow # {}
    /\ (args.current_price - HighestSupportBelow) * 100
           > 2 * args.stop_loss * args.current_price
    /\ analysis.stop_loss = FallbackStopPrice

\* the Analysis without its timestamp entry
WithoutTimestamp(a) == [k \in (DOMAIN a) \ {"timestamp"} |-> a[k]]

\* the current call has returned and an earlier call had the same arguments
SameArgsAsEarlier ==
    /\ Returned
    /\ earlier # <<>>
    /\ earlier[1].args = args

C10_StrongBuyTargetAtCap ==
    (Returned /\ args = StrongBuy) =>
        /\ analysis.score >= 7
        /\ analysis.entry_signal
        /\ analysis.target_price = Usd(105000)

\* C10 amended: the strong-buy scenario returns score >= 7, entry_signal
\* true and the partial target 104800, below the cap 105000
C10_StrongBuyPartialTarget ==
    (Returned /\ args = StrongBuy) =>
        /\ analysis.score >= 7
        /\ analysis.entry_signal
        /\ analysis.target_price = Usd(104800)

\* C10 witness: the strong-buy scenario has been analysed
C10_Witness ==
    /\ Returned
    /\ args = StrongBuy
    /\ analysis.score = 7
    /\ analysis.target_price < Usd(105000)

\* C11 as stated: the no-signal scenario returns score = 0 and entry_signal
\* false
C11_NoSignalScoreZero ==
    (Returned /\ args \in NoSignalInputs) =>
        /\ analysis.score = 0
        /\ ~analysis.entry_signal

\* C11 amended: the no-signal scenario returns entry_signal false and a
\* score of 0 when no support level is within 2% of the price, 1 when one is
C11_NoSignalScoreAtMostOne ==
    (Returned /\ args \in NoSignalInputs) =>
        /\ analysis.score = B(NearSupports # {})
        /\ ~analysis.entry_signal

\* C11 witness: the no-signal scenario with the supports [96000] of the
\* fixture returns score 0
C11_Witness ==
    /\ Returned
    /\ args \in NoSignalInputs
    /\ args.supports = <<Usd(96000)>>
    /\ analysis.score = 0
    /\ ~analysis.entry_signal

\* the maximum the console and Telegram reports print the score against
\* ("Score: n/7")
ShownMaximum == 7

\* C30: the score of every returned Analysis is at most 7, the maximum the
\* reports print it against
C30_ScoreWithinShownMaximum ==
    Returned => analysis.score <= ShownMaximum

\* ============================================ calculate_support_resistance
\* Prices of this part are multiples of 840, which makes the mean of up to
\* eight of them an exact integer division.
Lv(k) == 840 * k

Abs(x) == IF x < 0 THEN -x ELSE x

RECURSIVE Sum(_)
Sum(s) == IF s = <<>> THEN 0 ELSE Head(s) + Sum(Tail(s))

\* np.mean
mean(s) == Sum(s) \div Len(s)

\* mutated: the distance is taken from the first member of the cluster
WithinTolerance_FromStart(level, current_cluster, tolerance) ==
    LET first == current_cluster[1]
    IN  Abs(level - first) * 100 <= tolerance * first

\* abs(level - current_cluster[-1]) / current_cluster[-1] <= tolerance,
\* the tolerance in percent
WithinTolerance(level, current_cluster, tolerance) ==
    LET last == current_cluster[Len(current_cluster)]
    IN  Abs(level - last) * 100 <= tolerance * last

\* the loop of cluster_levels over levels[1:], keeping the members of every
\* closed cluster; the last cluster is closed after the loop
RECURSIVE ClusterLoop(_, _, _, _)
ClusterLoop(rest, current_cluster, closed, tolerance) ==
    IF rest = <<>> THEN Append(closed, current_cluster)
    ELSE IF WithinTolerance(Head(rest), current_cluster, tolerance)
         THEN ClusterLoop(Tail(rest), Append(current_cluster, Head(rest)),
                          closed, tolerance)
         ELSE ClusterLoop(Tail(rest), <<Head(rest)>>,
                          Append(closed, current_cluster), tolerance)

\* the member lists of the clusters, in the order they are closed
cluster_members(levels, tolerance) ==
    IF Len(levels) = 0 THEN <<>>
    ELSE LET s == sorted(levels)
         IN  ClusterLoop(Tail(s), <<s[1]>>, <<>>, tolerance)

\* cluster_levels: one np.mean per closed cluster
cluster_levels(levels, tolerance) ==
    LET m == cluster_members(levels, tolerance)
    IN  [i \in 1..Len(m) |-> mean(m[i])]

\* number of levels kept, the slice [:5]
TopLevels == 5

Top(s) == SubSeq(s, 1, Min(TopLevels, Len(s)))

\* mutated: the five lowest levels, ascending
LowestLevels(all_levels) == Top(sorted(all_levels))

\* sorted(all_levels, reverse=True)[:5]
HighestLevels(all_levels) == Top(sorted_reverse(all_levels))

\* the values returned, with the locals all_highs and all_lows
calculate_support_resistance(d, tolerance) ==
    LET highs     == [i \in 1..Len(d) |-> d[i].high]
        lows      == [i \in 1..Len(d) |-> d[i].low]
        all_highs == cluster_levels(highs, tolerance)
        all_lows  == cluster_levels(lows, tolerance)
    IN  [all_highs   |-> all_highs,
         all_lows    |-> all_lows,
         resistances |-> HighestLevels(all_highs),
         supports    |-> HighestLevels(all_lows)]

\* ------------------------------------------------------------------ inputs
\* bars with highs 100, 102, 104 chained at 2% and five separate highs,
\* lows 90, 91 chained and six separate lows
LevelBars ==
    <<[high |-> Lv(100), low |-> Lv(90)],
      [high |-> Lv(102), low |-> Lv(91)],
      [high |-> Lv(104), low |-> Lv(95)],
      [high |-> Lv(110), low |-> Lv(98)],
      [high |-> Lv(120), low |-> Lv(105)],
      [high |-> Lv(130), low |-> Lv(112)],
      [high |-> Lv(140), low |-> Lv(125)],
      [high |-> Lv(150), low |-> Lv(135)]>>

\* the series of bars whose date is its position
Dated(bars) == [i \in 1..Len(bars) |-> ("date" :> i) @@ bars[i]]

\* every series of at most MaxShort bars, repetitions included
ShortSeries ==
    UNION {{Dated(b) : b \in [1..n -> Range(LevelBars)]} : n \in 0..MaxShort}

\* the increasing index lists of length n over 1..m
RECURSIVE Increasing(_, _)
Increasing(n, m) ==
    IF n = 0 THEN {<<>>}
    ELSE IF m = 0 THEN {}
         ELSE Increasing(n, m - 1)
              \cup {Append(x, m) : x \in Increasing(n - 1, m - 1)}

\* every series of at most MaxBars distinct bars of LevelBars, in their order
LongSeries ==
    UNION {{Dated([i \in 1..n |-> LevelBars[x[i]]]) :
               x \in Increasing(n, Len(LevelBars))} : n \in 0..MaxBars}

\* tolerance in percent; 2 is the default
Tolerances == {2, 5}

\* the columns of the series get_historical_with_retry returns
BarColumns == {"date", "timestamp", "open", "high", "low", "close", "volume"}

InitLevels ==
    /\ df \in ShortSeries \cup LongSeries
    /\ hparams \in [tolerance : Tolerances]
    /\ sr = <<>>
    /\ hpc = "call"
    /\ drops = <<>>
    /\ recovery = <<>>
    /\ columns = BarColumns
    /\ closes = <<>>
    /\ rsi_last = <<>>
    /\ ScorerIdle
    /\ IoIdle

\* one call of calculate_support_resistance
CalculateSupportResistance ==
    /\ hpc = "call"
    /\ sr' = calculate_support_resistance(df, hparams.tolerance)
    /\ hpc' = "levels"
    /\ UNCHANGED <<df, hparams, drops, recovery, columns, closes, rsi_last>>
    /\ UNCHANGED outsideSeries

NextLevels == CalculateSupportResistance

SpecLevels == InitLevels /\ [][NextLevels]_vars

\* ------------------------------------------------------------------ claims
LevelsReturned == hpc = "levels"

Highs == [i \in 1..Len(df) |-> df[i].high]

Lows == [i \in 1..Len(df) |-> df[i].low]

RECURSIVE Concat(_)
Concat(ss) == IF ss = <<>> THEN <<>> ELSE Head(ss) \o Concat(Tail(ss))

\* neighbours a then b of the ascending list are within the tolerance
Chained(a, b) == (b - a) * 100 <= hparams.tolerance * a

\* the clusters m are the maximal chained runs of the ascending values, and
\* the levels are their arithmetic means
MaximalRuns(values, m, levels) ==
    /\ Concat(m) = sorted(values)
    /\ \A k \in 1..Len(m) :
          /\ m[k] # <<>>
          /\ \A i \in 1..(Len(m[k]) - 1) : Chained(m[k][i], m[k][i + 1])
    /\ \A k \in 1..(Len(m) - 1) : ~Chained(m[k][Len(m[k])], m[k + 1][1])
    /\ Len(levels) = Len(m)
    /\ \A k \in 1..Len(m) : levels[k] * Len(m[k]) = Sum(m[k])
    /\ (values = <<>>) => (levels = <<>>)

\* C12: the clusters are the maximal runs of the sorted values in which
\* each value is within tolerance of the one before it, every value is in
\* exactly one run, one level per run equal to its mean, none for no input
C12_ClustersAreMaximalChainedRuns ==
    LevelsReturned =>
        /\ MaximalRuns(Highs, cluster_members(Highs, hparams.tolerance),
                       sr.all_highs)
        /\ MaximalRuns(Lows, cluster_members(Lows, hparams.tolerance),
                       sr.all_lows)

\* C12 witness: the highs 100, 102, 104 form one cluster that spans more
\* than the 2% tolerance, next to a separate one
C12_Witness ==
    /\ LevelsReturned
    /\ hparams.tolerance = 2
    /\ Range(Highs) = {Lv(100), Lv(102), Lv(104)}
    /\ sr.all_highs = <<Lv(102)>>
    /\ Len(sr.all_lows) = 2

\* the list is strictly descending and holds the highest min(5, n) of the
\* n cluster means
HighestFive(list, means) ==
    /\ Len(list) = Min(5, Len(means))
    /\ \A i \in 1..(Len(list) - 1) : list[i] > list[i + 1]
    /\ Range(list) \subseteq Range(means)
    /\ \A x \in Range(list) : \A y \in Range(means) \ Range(list) : x > y

\* C13: at most 5 supports and 5 resistances, each descending, and each the
\* highest cluster means of the lows and of the highs
C13_FiveHighestDescending ==
    LevelsReturned =>
        /\ Len(sr.supports) <= 5
        /\ Len(sr.resistances) <= 5
        /\ HighestFive(sr.resistances, sr.all_highs)
        /\ HighestFive(sr.supports, sr.all_lows)

\* C13 witness: more than five clusters of lows, and the lowest is dropped
C13_Witness ==
    /\ LevelsReturned
    /\ Len(sr.all_lows) > 5
    /\ Len(sr.supports) = 5
    /\ sr.all_lows[1] \notin Range(sr.supports)
    /\ sr.supports[1] = sr.all_lows[Len(sr.all_lows)]

\* ===================================== find_drops_advanced, analyze_recovery
\* Prices of this part are small integers; every percentage is an exact
\* fraction and two fractions are compared by cross-multiplying.
FracLess(a, b) == a.num * b.den < b.num * a.den

FracSame(a, b) == a.num * b.den = b.num * a.den

Max(a, b) == IF a >= b THEN a ELSE b

\* window of the rolling maximum
Window == 30

\* mutated: the rolling maximum is the bar's own high
rolling_max_OwnHigh(d, i) == d[i].high

\* df['high'].rolling(window=30, min_periods=1).max() at row i
rolling_max(d, i) ==
    LET from == Max(1, i - Window + 1)
    IN  CHOOSE h \in {d[j].high : j \in from..i} :
            \A j \in from..i : d[j].high <= h

\* df['close'].pct_change() * 100 at row i > 1 (NaN at the first row)
change_close(d, i) == Percent(d[i].close - d[i - 1].close, d[i - 1].close)

\* mutated: the fall from the peak to the close
drawdown_ToClose(d, i) == Percent(d[i].close - rolling_max(d, i), rolling_max(d, i))

\* df['drawdown'] at row i
drawdown(d, i) == Percent(d[i].low - rolling_max(d, i), rolling_max(d, i))

change_intraday(d, i) == Percent(d[i].low - d[i].high, d[i].high)

\* a row of a drops frame
DropRow(d, i, change, tipo) ==
    [date |-> d[i].date, close |-> d[i].close, change_close |-> change,
     tipo |-> tipo]

\* the rows Row yields for the rows of d, in the order of d
SelectRows(d, Row(_, _)) == Concat([i \in 1..Len(d) |-> Row(d, i)])

\* method 1: close to close
CloseRow(min_drop, d, i) ==
    IF i > 1 /\ FracLE(change_close(d, i), -min_drop)
    THEN <<DropRow(d, i, change_close(d, i), "Close-to-Close")>>
    ELSE <<>>

\* method 2: drawdown from the rolling peak
DrawdownRow(min_drop, d, i) ==
    IF FracLE(drawdown(d, i), -min_drop)
    THEN <<DropRow(d, i, drawdown(d, i), "Peak-to-Valley")>>
    ELSE <<>>

\* method 3: intraday
IntradayRow(min_drop, d, i) ==
    IF FracLE(change_intraday(d, i), -min_drop)
    THEN <<DropRow(d, i, change_intraday(d, i), "Intraday")>>
    ELSE <<>>

\* pd.concat([drops_close, drops_drawdown, drops_intraday])
all_drops(d, min_drop) ==
    LET C(x, i) == CloseRow(min_drop, x, i)
        P(x, i) == DrawdownRow(min_drop, x, i)
        N(x, i) == IntradayRow(min_drop, x, i)
    IN  SelectRows(d, C) \o SelectRows(d, P) \o SelectRows(d, N)

\* mutated: the rows sorted descending, the smallest drop of the date first
FirstOfDate_Smallest(rows, date) ==
    {r \in Range(rows) :
        /\ r.date = date
        /\ \A q \in Range(rows) :
              q.date = date => ~FracLess(r.change_close, q.change_close)}

\* sort_values('change_close').groupby('date').first(): the rows that can
\* come first for a date; the sort is not stable, so rows of one date with
\* the same change can come in either order
FirstOfDate(rows, date) ==
    {r \in Range(rows) :
        /\ r.date = date
        /\ \A q \in Range(rows) :
              q.date = date => ~FracLess(q.change_close, r.change_close)}

\* groupby('date').first().reset_index(): the frames with one first row per
\* date, for the dates in ascending order
RECURSIVE GroupByFirst(_, _)
GroupByFirst(rows, dates) ==
    IF dates = <<>> THEN {<<>>}
    ELSE {<<r>> \o rest : r \in FirstOfDate(rows, Head(dates)),
                          rest \in GroupByFirst(rows, Tail(dates))}

\* every frame find_drops_advanced can return
find_drops_advanced(d, min_drop) ==
    LET rows  == all_drops(d, min_drop)
        dates == sorted(SelectRows(d,
                     LAMBDA x, i : IF \E r \in Range(rows) : r.date = x[i].date
                                   THEN <<x[i].date>> ELSE <<>>))
    IN  IF Len(rows) > 0 THEN GroupByFirst(rows, dates) ELSE {rows}

\* default of analyze_recovery
DefaultDaysAhead == 7

\* mutated: every later bar, without head(days_ahead)
future_data_All(d, drop_date, days_ahead) ==
    SelectRows(d, LAMBDA x, i : IF x[i].date > drop_date THEN <<x[i]>> ELSE <<>>)

\* df[df['date'] > drop_date].head(days_ahead)
future_data(d, drop_date, days_ahead) ==
    LET later == SelectRows(d, LAMBDA x, i : IF x[i].date > drop_date
                                                 THEN <<x[i]>> ELSE <<>>)
    IN  SubSeq(later, 1, Min(days_ahead, Len(later)))

\* the loop over future_data; st holds recovery_day, recovery_price,
\* max_gain and max_gain_day
RECURSIVE RecoveryLoop(_, _, _)
RecoveryLoop(future, drop_row, st) ==
    IF future = <<>> THEN st
    ELSE LET future_row    == Head(future)
             days_passed   == future_row.date - drop_row.date
             current_price == future_row.close
             gain          == Percent(current_price - drop_row.close, drop_row.close)
             st1 == IF st.recovery_day = None /\ current_price > drop_row.close
                    THEN [st EXCEPT !.recovery_day = days_passed,
                                    !.recovery_price = current_price]
                    ELSE st
             st2 == IF FracLess(st1.max_gain, gain)
                    THEN [st1 EXCEPT !.max_gain = gain, !.max_gain_day = days_passed]
                    ELSE st1
         IN  RecoveryLoop(Tail(future), drop_row, st2)

\* mutated: the largest gain starts below every gain, not at 0
RecoveryEntry_AnyGain(d, drop_row, days_ahead) ==
    LET future == future_data(d, drop_row.date, days_ahead)
        st == RecoveryLoop(future, drop_row,
                  [recovery_day |-> None, recovery_price |-> None,
                   max_gain |-> Whole(-100), max_gain_day |-> None])
    IN  IF Len(future) = 0 THEN <<>>
        ELSE <<[date             |-> drop_row.date,
                tipo             |-> drop_row.tipo,
                drop_percent     |-> drop_row.change_close,
                drop_price       |-> drop_row.close,
                recovery_days    |-> st.recovery_day,
                recovery_price   |-> st.recovery_price,
                max_gain_percent |-> st.max_gain,
                max_gain_days    |-> st.max_gain_day,
                recovered        |-> st.recovery_day # None]>>

\* the result entry of one drop, or nothing when no bar follows it
RecoveryEntry(d, drop_row, days_ahead) ==
    LET future == future_data(d, drop_row.date, days_ahead)
        st == RecoveryLoop(future, drop_row,
                  [recovery_day |-> None, recovery_price |-> None,
                   max_gain |-> Whole(0), max_gain_day |-> None])
    IN  IF Len(future) = 0 THEN <<>>
        ELSE <<[date             |-> drop_row.date,
                tipo             |-> drop_row.tipo,
                drop_percent     |-> drop_row.change_close,
                drop_price       |-> drop_row.close,
                recovery_days    |-> st.recovery_day,
                recovery_price   |-> st.recovery_price,
                max_gain_percent |-> st.max_gain,
                max_gain_days    |-> st.max_gain_day,
                recovered        |-> st.recovery_day # None]>>

analyze_recovery(d, drop_rows, days_ahead) ==
    SelectRows(drop_rows, LAMBDA x, i : RecoveryEntry(d, x[i], days_ahead))

\* ------------------------------------------------------------------ inputs
\* find_drops_advanced assigns these columns of the series it is given
columns_after_find_drops(cols) ==
    cols \cup {"change_close", "rolling_max", "drawdown", "change_intraday"}

\* closes 100, 95, 93 and 102, each with no wick or a wick of 3 either side
DayBars ==
    {[close |-> c, high |-> c + w, low |-> c - w] :
        c \in {100, 95, 93, 102}, w \in {0, 3}}

\* the series of n days
DaySeries(n) == {Dated(b) : b \in [1..n -> DayBars]}

InitBacktest ==
    /\ \E n \in 0..MaxDays : df \in DaySeries(n)
    /\ hparams \in [min_drop : {5}, days_ahead : {1, 2}]
    /\ sr = <<>>
    /\ hpc = "call"
    /\ drops = <<>>
    /\ recovery = <<>>
    /\ columns = BarColumns
    /\ closes = <<>>
    /\ rsi_last = <<>>
    /\ ScorerIdle
    /\ IoIdle

\* one call of find_drops_advanced
FindDropsAdvanced ==
    /\ hpc = "call"
    /\ drops' \in find_drops_advanced(df, hparams.min_drop)
    /\ hpc' = "drops"
    /\ columns' = columns_after_find_drops(columns)
    /\ UNCHANGED <<df, hparams, sr, recovery, closes, rsi_last>>
    /\ UNCHANGED outsideSeries

\* one call of analyze_recovery on the events found
AnalyzeRecovery ==
    /\ hpc = "drops"
    /\ recovery' = analyze_recovery(df, drops, hparams.days_ahead)
    /\ hpc' = "recovery"
    /\ UNCHANGED <<df, hparams, sr, drops, columns, closes, rsi_last>>
    /\ UNCHANGED outsideSeries

NextBacktest == FindDropsAdvanced \/ AnalyzeRecovery

SpecBacktest == InitBacktest /\ [][NextBacktest]_vars

\* the intraday method detects a drop on bar i
IntradayDetects(i) == FracLE(change_intraday(df, i), -hparams.min_drop)

\* the peak-to-valley method detects a drop on bar i
DrawdownDetects(i) == FracLE(drawdown(df, i), -hparams.min_drop)

\* C28: a bar on which the intraday method detects a drop is also detected by
\* the peak-to-valley method, with a change at least as negative, and an
\* event of type Intraday has the same change by both methods
C28_IntradayImpliesPeakToValley ==
    (hpc \in {"drops", "recovery"}) =>
        /\ \A i \in 1..Len(df) :
              IntradayDetects(i) =>
                  /\ DrawdownDetects(i)
                  /\ ~FracLess(change_intraday(df, i), drawdown(df, i))
        /\ \A k \in 1..Len(drops) : \A i \in 1..Len(df) :
              (drops[k].tipo = "Intraday" /\ df[i].date = drops[k].date) =>
                  FracSame(change_intraday(df, i), drawdown(df, i))

\* one event of type Intraday survived, and on another bar the intraday
\* drop lost to a deeper fall from an earlier peak
C28_Witness ==
    /\ hpc = "drops"
    /\ \E k \in 1..Len(drops) : drops[k].tipo = "Intraday"
    /\ \E i \in 1..Len(df) :
          /\ IntradayDetects(i)
          /\ FracLess(drawdown(df, i), change_intraday(df, i))
          /\ \E k \in 1..Len(drops) :
                drops[k].date = df[i].date /\ drops[k].tipo # "Intraday"

\* C26: the historical series is read-only: a call of the indicator
\* functions leaves the caller's series with the same bars and the same columns
C26_SeriesReadOnly == [][df' = df /\ columns' = columns]_vars

\* ------------------------------------------------------------------ claims
DropsFound == hpc \in {"drops", "recovery"}

\* the highest high of the 30 bars ending with bar i
Peak(i) ==
    LET W == {j \in 1..i : j > i - 30}
    IN  CHOOSE h \in {df[j].high : j \in W} : \A j \in W : df[j].high <= h

\* what each of the three methods measures on bar i
Measured(i) ==
    (IF i > 1
     THEN {[tipo |-> "Close-to-Close",
            change |-> [num |-> (df[i].close - df[i - 1].close) * 100,
                        den |-> df[i - 1].close]]}
     ELSE {})
    \cup {[tipo |-> "Peak-to-Valley",
           change |-> [num |-> (df[i].low - Peak(i)) * 100, den |-> Peak(i)]],
          [tipo |-> "Intraday",
           change |-> [num |-> (df[i].low - df[i].high) * 100,
                       den |-> df[i].high]]}

\* the drops detected on bar i
Detected(i) ==
    {x \in Measured(i) : x.change.num <= -hparams.min_drop * x.change.den}

\* C14: at most one event per date, every event at least min_drop, and for
\* each date with a detection the event has the most negative change
\* detected on that date and the type of a method that measured it
C14_OneLargestDropPerDate ==
    DropsFound =>
        /\ \A a, b \in 1..Len(drops) : a # b => drops[a].date # drops[b].date
        /\ \A k \in 1..Len(drops) :
              drops[k].change_close.num
                  <= -hparams.min_drop * drops[k].change_close.den
        /\ \A i \in 1..Len(df) :
              Detected(i) # {} =>
                  \E k \in 1..Len(drops) :
                      /\ drops[k].date = df[i].date
                      /\ \E x \in Detected(i) :
                            /\ x.tipo = drops[k].tipo
                            /\ FracSame(x.change, drops[k].change_close)
                      /\ \A y \in Detected(i) :
                            ~FracLess(y.change, drops[k].change_close)

\* C14 witness: a bar on which the three methods detect three different
\* drops, kept with the peak-to-valley change
C14_Witness ==
    /\ DropsFound
    /\ \E i \in 1..Len(df) :
          /\ Cardinality(Detected(i)) = 3
          /\ \A x, y \in Detected(i) : x # y => ~FracSame(x.change, y.change)
          /\ \E k \in 1..Len(drops) :
                /\ drops[k].date = df[i].date
                /\ drops[k].tipo = "Peak-to-Valley"

Flat(i, price) ==
    /\ df[i].close = price
    /\ df[i].high = price
    /\ df[i].low = price

\* the series is flat at 100, closes 7% lower on day D and is flat at 93
\* afterwards
InjectedAt(D) ==
    /\ hparams.min_drop = 5
    /\ D \in 2..Len(df)
    /\ \A i \in 1..(D - 1) : Flat(i, 100)
    /\ df[D].close = 93
    /\ \A i \in (D + 1)..Len(df) : Flat(i, 93)

MinusSeven == [num |-> -7, den |-> 1]

RecoveryDone == hpc = "recovery"

\* the bars dated after the event
LaterBars(e) == {i \in 1..Len(df) : df[i].date > e.date}

\* the first days_ahead of them
Examined(e) ==
    {i \in LaterBars(e) :
        Cardinality({j \in LaterBars(e) : j < i}) < hparams.days_ahead}

Earliest(S) == CHOOSE i \in S : \A j \in S : i <= j

\* the examined bars closing above the close of the drop bar
Recovering(e) == {i \in Examined(e) : df[i].close > e.close}

\* the examined bars with the highest close, hence the largest gain
Best(e) == {i \in Examined(e) : \A j \in Examined(e) : df[j].close <= df[i].close}

GainAt(e, i) == [num |-> (df[i].close - e.close) * 100, den |-> e.close]

Offset(e, i) == df[i].date - e.date

\* the entries are those of the events with a later bar, in order, and
\* recovery_days is the offset of the first examined bar above the drop close
RecoveryEntries(MaxGainOk(_, _)) ==
    /\ Len(recovery) = Cardinality({k \in 1..Len(drops) : LaterBars(drops[k]) # {}})
    /\ \A a, b \in 1..Len(recovery) : a < b => recovery[a].date < recovery[b].date
    /\ \A k \in 1..Len(drops) :
          LET e == drops[k]
          IN  IF LaterBars(e) = {}
              THEN \A n \in 1..Len(recovery) : recovery[n].date # e.date
              ELSE \E n \in 1..Len(recovery) :
                      LET r == recovery[n]
                      IN  /\ r.date = e.date
                          /\ r.drop_price = e.close
                          /\ r.recovery_days =
                                 IF Recovering(e) = {} THEN None
                                 ELSE Offset(e, Earliest(Recovering(e)))
                          /\ MaxGainOk(e, r)

\* max_gain_percent is the largest gain among the examined bars and
\* max_gain_days the offset of the first bar attaining it
LargestGain(e, r) ==
    /\ FracSame(r.max_gain_percent, GainAt(e, Earliest(Best(e))))
    /\ r.max_gain_days = Offset(e, Earliest(Best(e)))

\* the same when the largest gain is positive; 0 and None otherwise
LargestPositiveGain(e, r) ==
    IF df[Earliest(Best(e))].close > e.close
    THEN LargestGain(e, r)
    ELSE /\ r.max_gain_percent.num = 0
         /\ r.max_gain_days = None

\* C16 as stated: only the first days_ahead later bars are examined,
\* recovery_days is the offset of the first one above the drop close,
\* max_gain_percent and max_gain_days are the largest gain among them and
\* the offset of the first bar attaining it, no entry without a later bar
C16_RecoveryLargestGain ==
    RecoveryDone => RecoveryEntries(LargestGain)

\* C16 amended: as stated, except that max_gain_percent is the largest gain
\* only when that is positive; otherwise it is 0 and max_gain_days is None
C16_RecoveryLargestPositiveGain ==
    RecoveryDone => RecoveryEntries(LargestPositiveGain)

\* C16 witness: an event with more later bars than days_ahead, recovered
\* within the examined bars, and a higher close after them
C16_Witness ==
    /\ RecoveryDone
    /\ \E n \in 1..Len(recovery) : \E k \in 1..Len(drops) :
          LET e == drops[k]
          IN  /\ recovery[n].date = e.date
              /\ recovery[n].max_gain_days # None
              /\ \E i \in LaterBars(e) \ Examined(e) :
                    \A j \in Examined(e) : df[j].close < df[i].close

\* C29: in every result entry max_gain_percent is at least 0; recovered,
\* recovery_days given, max_gain_days given and max_gain_percent above 0 all
\* hold or all fail; and a recovered entry has recovery_days <= max_gain_days
C29_RecoveryEntryConsistent ==
    (hpc = "recovery") =>
        \A n \in 1..Len(recovery) :
            LET e == recovery[n]
            IN  /\ FracGE(e.max_gain_percent, 0)
                /\ e.recovered <=> (e.recovery_days # None)
                /\ (e.recovery_days # None) <=> (e.max_gain_days # None)
                /\ (e.max_gain_days # None) <=> ~FracLE(e.max_gain_percent, 0)
                /\ e.recovered => e.recovery_days <= e.max_gain_days

\* one event never recovered, another recovered before its largest gain
C29_Witness ==
    /\ hpc = "recovery"
    /\ \E n \in 1..Len(recovery) : ~recovery[n].recovered
    /\ \E n \in 1..Len(recovery) :
          /\ recovery[n].recovered
          /\ recovery[n].recovery_days < recovery[n].max_gain_days

(***************************************************************************)
(* The signal log (src/btc_monitor/storage.py).  The file of a symbol is   *)
(* missing, or holds text: a JSON array of signals, or text that json.load *)
(* rejects.  Reading an existing file can fail whatever it holds (the      *)
(* open or the read raises); writing can fail at the open, which leaves    *)
(* the file alone, or in json.dump after the open has truncated the file.  *)
(***************************************************************************)
MissingFile == [exists |-> FALSE, json |-> FALSE, logs |-> <<>>]

JsonFile(logs) == [exists |-> TRUE, json |-> TRUE, logs |-> logs]

\* a file that is not a JSON document, such as one cut short in a write
BrokenFile == [exists |-> TRUE, json |-> FALSE, logs |-> <<>>]

ReadOutcomes == {"read", "raises"}

WriteOutcomes == {"written", "open raises", "dump raises"}

\* load_all: no file, or any exception while reading it, gives the empty list
load_all(f, read) ==
    IF ~f.exists THEN <<>>
    ELSE IF read = "raises" \/ ~f.json THEN <<>>
    ELSE f.logs

\* save_signal: the file afterwards and the value returned
save_signal(f, signal, read, write) ==
    LET logs == Append(load_all(f, read), signal)
    IN  CASE write = "written" ->
                [file |-> JsonFile(logs), returned |-> TRUE]
          [] write = "open raises" ->
                [file |-> f, returned |-> FALSE]
          [] write = "dump raises" ->
                [file |-> BrokenFile, returned |-> FALSE]

Signals == {"s1", "s2", "s3"}

RECURSIVE SeqsUpTo(_, _)
SeqsUpTo(S, n) ==
    IF n = 0 THEN {<<>>}
    ELSE LET shorter == SeqsUpTo(S, n - 1)
         IN  shorter \cup {Append(q, x) : q \in shorter, x \in S}

\* the files save_signal can find: none, a log, or a broken one
Files ==
    {MissingFile, BrokenFile} \cup {JsonFile(l) : l \in SeqsUpTo(Signals, 2)}

InitStorage ==
    /\ file \in Files
    /\ before = <<>>
    /\ saved = <<>>
    /\ latest = <<>>
    /\ ScorerIdle
    /\ SeriesIdle
    /\ RetryIdle
    /\ MonitorIdle
    /\ TasksIdle

\* one call of save_signal
SaveSignal ==
    /\ Len(file.logs) < MaxLogs
    /\ \E signal \in Signals, read \in ReadOutcomes, write \in WriteOutcomes :
          LET call == save_signal(file, signal, read, write)
          IN  /\ file' = call.file
              /\ before' = file
              /\ saved' = [signal |-> signal, returned |-> call.returned]
    /\ latest' = latest
    /\ UNCHANGED outsideStorage

\* s[i:] of Python for a list s and an integer i: a negative i counts from
\* the end, and an i outside the list is clamped to it
slice_from(s, i) ==
    LET start == IF i < 0
                 THEN (IF Len(s) + i < 0 THEN 0 ELSE Len(s) + i)
                 ELSE (IF i > Len(s) THEN Len(s) ELSE i)
    IN  SubSeq(s, start + 1, Len(s))

\* get_latest: logs[-n:] if logs else []
get_latest(f, n, read) ==
    LET logs == load_all(f, read)
    IN  IF logs # <<>> THEN slice_from(logs, 0 - n) ELSE <<>>

\* one call of get_latest
GetLatest ==
    /\ \E n \in 0..MaxLatest, read \in ReadOutcomes :
          latest' = [n |-> n, logs |-> load_all(file, read),
                     returned |-> get_latest(file, n, read)]
    /\ UNCHANGED <<file, before, saved>>
    /\ UNCHANGED outsideStorage

NextStorage == SaveSignal \/ GetLatest

SpecStorage == InitStorage /\ [][NextStorage]_vars

\* ------------------------------------------------------------------ claims
Saved == saved # <<>>

\* the entries a file holds
Entries(f) == IF f.exists /\ f.json THEN f.logs ELSE <<>>

IsPrefix(s, t) ==
    /\ Len(s) <= Len(t)
    /\ \A i \in 1..Len(s) : s[i] = t[i]

\* the last k entries of a list
LastEntries(s, k) == SubSeq(s, Len(s) - k + 1, Len(s))

\* C24: get_latest(n) returns the last min(n, length) entries of the log in
\* log order, never more than n entries, and the empty list for an empty or
\* missing log
C24_LatestN ==
    latest # <<>> =>
        /\ latest.returned =
              LastEntries(latest.logs,
                          IF latest.n < Len(latest.logs) THEN latest.n
                          ELSE Len(latest.logs))
        /\ Len(latest.returned) <= latest.n
        /\ (latest.logs = <<>> => latest.returned = <<>>)

\* C17: every entry in the file before a call of save_signal is in the file
\* after it, at the same position, and a successful call only adds the new
\* signal at the end
C17_AppendOnly ==
    Saved =>
        /\ IsPrefix(Entries(before), Entries(file))
        /\ saved.returned =>
              Entries(file) = Append(Entries(before), saved.signal)


(***************************************************************************)
(* The bounded retry of the historical download                            *)
(* (src/btc_monitor/binance_api.py, get_historical_with_retry; the same    *)
(* loop is get_historical_data of src/backtest.py).  An attempt ends with  *)
(* a 200 response carrying bars, a 200 response carrying an empty list,    *)
(* another status, or an exception (the request raising, or the body of a  *)
(* 200 response failing to parse).                                         *)
(***************************************************************************)
Bars == "df"

NoBars == "None"

FailedResponses == {"429", "500", "timeout", "200 unparsable"}

Responses == {"200 bars", "200 empty"} \cup FailedResponses

\* time.sleep(2 ** attempt)
backoff_Fixed(n) == 2

backoff(n) == 2 ^ n

\* if attempt < retries - 1
sleeps_after(n, r) == n < r - 1

InitRetry ==
    /\ retries \in 0..MaxRetries
    /\ attempt = 0
    /\ rpc = "loop"
    /\ waits = <<>>
    /\ responses = <<>>
    /\ result = <<>>
    /\ ScorerIdle
    /\ SeriesIdle
    /\ StorageIdle
    /\ MonitorIdle
    /\ TasksIdle

\* an attempt answered 200 with bars: the frame is returned
AttemptReturnsBars ==
    /\ rpc = "loop"
    /\ attempt < retries
    /\ responses' = Append(responses, "200 bars")
    /\ result' = <<Bars>>
    /\ rpc' = "done"
    /\ UNCHANGED <<retries, attempt, waits>>
    /\ UNCHANGED outsideRetry

\* an attempt answered 200 with an empty list: None is returned at once
AttemptReturnsEmpty ==
    /\ rpc = "loop"
    /\ attempt < retries
    /\ responses' = Append(responses, "200 empty")
    /\ result' = <<NoBars>>
    /\ rpc' = "done"
    /\ UNCHANGED <<retries, attempt, waits>>
    /\ UNCHANGED outsideRetry

\* an attempt failed: sleep unless it was the last one, then loop
AttemptFails ==
    /\ rpc = "loop"
    /\ attempt < retries
    /\ \E r \in FailedResponses : responses' = Append(responses, r)
    /\ waits' = IF sleeps_after(attempt, retries)
                THEN Append(waits, backoff(attempt))
                ELSE waits
    /\ attempt' = attempt + 1
    /\ UNCHANGED <<retries, rpc, result>>
    /\ UNCHANGED outsideRetry

\* range(retries) is used up: None is returned
AttemptsUsedUp ==
    /\ rpc = "loop"
    /\ attempt >= retries
    /\ result' = <<NoBars>>
    /\ rpc' = "done"
    /\ UNCHANGED <<retries, attempt, waits, responses>>
    /\ UNCHANGED outsideRetry

NextRetry ==
    AttemptReturnsBars \/ AttemptReturnsEmpty \/ AttemptFails \/ AttemptsUsedUp

SpecRetry == InitRetry /\ [][NextRetry]_vars

\* the loop is sequential code: every request ends (timeout=15) and every
\* sleep is finite, so a step that can be taken is taken
SpecRetryFair == SpecRetry /\ WF_vars(NextRetry)

\* ------------------------------------------------------------------ claims
RetryDone == rpc = "done"

Failed(i) == responses[i] \in FailedResponses

\* the failed attempts after which another attempt may follow
FollowedUp == {i \in 1..Len(responses) : Failed(i) /\ i < retries}

RetryBounded ==
    /\ Len(responses) <= retries
    /\ \A i \in 1..Len(responses) :
          responses[i] = "200 bars" => (i = Len(responses) /\ result = <<Bars>>)
    /\ \A i \in 1..(Len(responses) - 1) : Failed(i)
    /\ result = <<Bars>> =>
          (responses # <<>> /\ responses[Len(responses)] = "200 bars")
    /\ Len(waits) = Cardinality(FollowedUp)
    /\ \A i \in 1..Len(waits) : waits[i] = 2 ^ (i - 1)
    /\ \A i \in 1..Len(responses) :
          (Failed(i) /\ i < retries) => (Len(waits) >= i /\ waits[i] = 2 ^ (i - 1))
    /\ RetryDone => result \in {<<Bars>>, <<NoBars>>}
    /\ (RetryDone /\ (responses = <<>> \/ Failed(Len(responses))))
          => (Len(responses) = retries /\ result = <<NoBars>>)

\* C19: the call ends; it makes at most retries attempts, returns the bars
\* at the first 200 response that has some, sleeps 2^attempt after every
\* failed attempt but the last, and returns None when the attempts are
\* used up
C19_RetryTerminates == []RetryBounded /\ <>RetryDone

\* C19 witness: three attempts allowed, two failed and slept after, the
\* third answered with bars
C19_Witness ==
    /\ RetryDone
    /\ retries = 3
    /\ Len(responses) = 3
    /\ waits = <<1, 2>>
    /\ result = <<Bars>>

(***************************************************************************)
(* The poll loop of one symbol (src/monitor.py, monitor_symbol; the loop   *)
(* of src/monitor_btc.py, run_monitor, has the same shape).  The fetches,  *)
(* the analysis, the printing and save_signal are synchronous calls; the   *)
(* loop can be cancelled only where it awaits: in a sleep or in the send   *)
(* of the notification.                                                    *)
(***************************************************************************)
\* await asyncio.sleep(30) after a fetch that gave nothing
NoDataWait == 30

\* settings.CHECK_INTERVAL
CheckInterval == 300

\* await asyncio.sleep(60) after an exception
ErrorWait == 60

NoRequests == [price |-> 0, stats |-> 0, bars |-> 0]

\* get_current_price, get_24h_stats, get_historical_klines: one request,
\* the value on success, None on any exception
FetchOutcomes == {"value", "None"}

\* format_analysis divides profit_percent by stop_percent when it prints a
\* trade suggestion: a ZeroDivisionError when stop_percent is 0
print_analysis_raises(a) == a.entry_signal /\ a.stop_percent.num = 0

\* the settings a process can run with
MonitorSettings == {DefaultConfig, [DefaultConfig EXCEPT !.stop_loss = 0]}

\* what the three fetches of a cycle can deliver
MonitorData ==
    MarketData({Usd(100000)}, {-6, -2}, {Usd(100500)}, {50},
               {<<>>, <<Usd(96000)>>}, {<<Usd(108000)>>})

InitMonitor ==
    /\ mpc = "price"
    /\ cycle = 1
    /\ telegram \in BOOLEAN
    /\ settings \in MonitorSettings
    /\ requests = NoRequests
    /\ manalysis = NoAnalysis
    /\ saves = 0
    /\ status = "running"
    /\ nap = 0
    /\ sends = 0
    /\ delivered = "none"
    /\ cancel = FALSE
    /\ caught = 0
    /\ got = "nothing yet"
    /\ file \in {MissingFile, BrokenFile, JsonFile(<<>>)}
    /\ before = <<>>
    /\ saved = <<>>
    /\ latest = <<>>
    /\ ScorerIdle
    /\ SeriesIdle
    /\ RetryIdle
    /\ TasksIdle

\* a fetch that gave nothing handled as an exception is
NoData_AsError ==
    /\ status' = "no data"
    /\ nap' = ErrorWait
    /\ mpc' = "sleep"

\* a fetch gave nothing: sleep 30 s and continue with the next cycle
NoData ==
    /\ status' = "no data"
    /\ nap' = NoDataWait
    /\ mpc' = "sleep"

\* an exception that ends the task instead of being caught
Raised_Fatal ==
    /\ status' = "error"
    /\ nap' = 0
    /\ mpc' = "stopped"
    /\ caught' = caught + 1

\* except Exception: the loop sleeps 60 s and goes on
Raised ==
    /\ status' = "error"
    /\ nap' = ErrorWait
    /\ mpc' = "sleep"
    /\ caught' = caught + 1

\* a test that lets an empty frame through
no_bars_OnlyNone(bars) == bars = "None"

\* df_historical is None or len(df_historical) == 0
no_bars(bars) == bars \in {"None", "empty"}

\* client.get_current_price()
FetchPrice ==
    /\ mpc = "price"
    /\ requests' = [requests EXCEPT !.price = @ + 1]
    /\ got' \in FetchOutcomes
    /\ IF got' = "None" THEN NoData
       ELSE mpc' = "stats" /\ UNCHANGED <<status, nap>>
    /\ UNCHANGED <<cycle, telegram, settings, manalysis, saves, sends, delivered, cancel, caught>>
    /\ UNCHANGED <<storageVars, outsideMonitor>>

\* client.get_24h_stats()
FetchStats ==
    /\ mpc = "stats"
    /\ requests' = [requests EXCEPT !.stats = @ + 1]
    /\ got' \in FetchOutcomes
    /\ IF got' = "None" THEN NoData
       ELSE mpc' = "bars" /\ UNCHANGED <<status, nap>>
    /\ UNCHANGED <<cycle, telegram, settings, manalysis, saves, sends, delivered, cancel, caught>>
    /\ UNCHANGED <<storageVars, outsideMonitor>>

\* client.get_historical_klines(settings.HISTORICAL_DAYS); an empty frame
\* counts as None
FetchBars ==
    /\ mpc = "bars"
    /\ requests' = [requests EXCEPT !.bars = @ + 1]
    /\ got' \in FetchOutcomes \cup {"empty"}
    /\ IF no_bars(got') THEN NoData
       ELSE mpc' = "analyze" /\ UNCHANGED <<status, nap>>
    /\ UNCHANGED <<cycle, telegram, settings, manalysis, saves, sends, delivered, cancel, caught>>
    /\ UNCHANGED <<storageVars, outsideMonitor>>

\* analyze_opportunity and print_analysis; an exception of the printing is
\* caught by the loop, which sleeps 60 s
Analyze ==
    /\ mpc = "analyze"
    /\ \E m \in MonitorData :
          LET a == analyze_opportunity(m @@ settings, cycle)
          IN  /\ manalysis' = a
              /\ IF print_analysis_raises(a)
                 THEN Raised
                 ELSE /\ status' = "analyzed"
                      /\ caught' = caught
                      /\ IF a.entry_signal
                         THEN mpc' = "save" /\ nap' = nap
                         ELSE mpc' = "sleep" /\ nap' = CheckInterval
    /\ UNCHANGED <<cycle, telegram, settings, requests, saves, sends, delivered, cancel, got>>
    /\ UNCHANGED <<storageVars, outsideMonitor>>

\* storage.save_signal(analysis), whose result the loop does not look at
StoreSignal ==
    /\ mpc = "save"
    /\ \E read \in ReadOutcomes, write \in WriteOutcomes :
          LET call == save_signal(file, manalysis, read, write)
          IN  /\ file' = call.file
              /\ before' = file
              /\ saved' = [signal |-> manalysis, returned |-> call.returned]
    /\ latest' = latest
    /\ saves' = saves + 1
    /\ IF telegram
       THEN mpc' = "notify" /\ nap' = nap
       ELSE mpc' = "sleep" /\ nap' = CheckInterval
    /\ UNCHANGED <<cycle, telegram, settings, requests, manalysis, status, sends, delivered, cancel, caught, got>>
    /\ UNCHANGED outsideMonitor

\* send_message returns True when the message was sent and False on any
\* error of the delivery
DeliveryOutcomes == {"sent", "failed"}

\* a loop that backs off after a notification that was not delivered
NotifyWait_BackOff(outcome) ==
    IF outcome = "failed" THEN ErrorWait ELSE CheckInterval

\* the loop does not look at what send_trade_signal returns: it sleeps
\* CHECK_INTERVAL next
NotifyWait(outcome) == CheckInterval

\* await telegram.send_trade_signal(...), delivered or not
Notify ==
    /\ mpc = "notify"
    /\ \E outcome \in DeliveryOutcomes :
          /\ delivered' = outcome
          /\ nap' = NotifyWait(outcome)
    /\ sends' = sends + 1
    /\ mpc' = "sleep"
    /\ UNCHANGED <<cycle, telegram, settings, requests, manalysis, saves, status, cancel, caught, got>>
    /\ UNCHANGED <<storageVars, outsideMonitor>>

\* the sleep ends and the loop starts the next cycle
NextCycle ==
    /\ mpc = "sleep"
    /\ cycle < MaxCycles
    /\ cycle' = cycle + 1
    /\ mpc' = "price"
    /\ requests' = NoRequests
    /\ manalysis' = NoAnalysis
    /\ saves' = 0
    /\ status' = "running"
    /\ nap' = 0
    /\ sends' = 0
    /\ got' = "nothing yet"
    /\ UNCHANGED <<telegram, settings, delivered, cancel, caught>>
    /\ UNCHANGED <<storageVars, outsideMonitor>>

\* run_monitor_async calls task.cancel()
RequestCancel ==
    /\ ~cancel
    /\ mpc # "stopped"
    /\ cancel' = TRUE
    /\ UNCHANGED <<mpc, cycle, telegram, settings, requests, manalysis, saves,
                   status, nap, sends, delivered, caught, got>>
    /\ UNCHANGED <<storageVars, outsideMonitor>>

\* a requested cancellation reaches the task where it awaits
Cancelled ==
    /\ cancel
    /\ mpc \in {"sleep", "notify"}
    /\ mpc' = "stopped"
    /\ UNCHANGED <<cycle, telegram, settings, requests, manalysis, saves, status,
                   nap, sends, delivered, cancel, caught, got>>
    /\ UNCHANGED <<storageVars, outsideMonitor>>

\* the steps of the task itself
LoopStep ==
    \/ FetchPrice
    \/ FetchStats
    \/ FetchBars
    \/ Analyze
    \/ StoreSignal
    \/ Notify
    \/ NextCycle
    \/ Cancelled

NextMonitor == LoopStep \/ RequestCancel

SpecMonitor == InitMonitor /\ [][NextMonitor]_vars

\* the event loop runs the task: every request and every send has a timeout
\* and every sleep ends, so a step of the task that can be taken is taken
SpecMonitorFair == SpecMonitor /\ WF_vars(LoopStep)

\* ------------------------------------------------------------------ claims
\* the cycle has passed the point where it saves
PastSave == mpc \in {"notify", "sleep", "stopped"}

Analyzed == manalysis # NoAnalysis

NoDataCycle == status = "no data"

Attempts == {requests.price, requests.stats, requests.bars}

NotifyPending == mpc = "notify"

\* the analysis of this cycle is the last entry of the log
LoggedLast ==
    /\ Entries(file) # <<>>
    /\ Entries(file)[Len(Entries(file))] = manalysis

\* a step in which the attempt to notify ends, delivered or not
NotifyEnds == mpc = "notify" /\ mpc' = "sleep"

\* whatever the outcome of the delivery, the log, the analysis and the
\* course of the loop are the same: the loop sleeps CHECK_INTERVAL next
DeliveryIgnored ==
    NotifyEnds =>
        /\ file' = file
        /\ manalysis' = manalysis
        /\ saves' = saves
        /\ status' = status
        /\ cycle' = cycle
        /\ nap' = 300

\* a cycle after a failed delivery that reaches its save makes it
SavesAfterFailure ==
    (delivered = "failed" /\ PastSave /\ status = "analyzed"
        /\ manalysis.entry_signal) => saves = 1

C22_ErrorsNeverEndTheLoop ==
    /\ [](status = "error" => (nap = 60 /\ mpc \in {"sleep", "stopped"}))
    /\ [](mpc = "stopped" => cancel)
    /\ \A c \in 1..(MaxCycles - 1) :
          (cycle = c /\ ~cancel) ~> (cycle = c + 1 \/ cancel)

\* C22 witness: the loop caught an exception in the first cycle and has
\* started the second
C22_Witness ==
    /\ caught = 1
    /\ cycle = 2
    /\ mpc = "price"
    /\ ~cancel

\* the last fetch of this cycle gave nothing: None, or an empty list of bars
GotNothing == got \in {"None", "empty"}

\* the fetches made in a cycle that ended at its first, second or third fetch
EndedAtAFetch ==
    requests \in {[price |-> 1, stats |-> 0, bars |-> 0],
                  [price |-> 1, stats |-> 1, bars |-> 0],
                  [price |-> 1, stats |-> 1, bars |-> 1]}

\* a cycle without data stays as it is until the next cycle begins or the
\* task is stopped, and the exception handler of the loop is not entered
NoDataStaysPut ==
    /\ (status = "no data" /\ status' = "no data") =>
          /\ requests' = requests
          /\ file' = file
          /\ saves' = saves
          /\ sends' = sends
          /\ manalysis' = manalysis
          /\ caught' = caught
    /\ (status = "no data" /\ status' # "no data") =>
          /\ cycle' = cycle + 1
          /\ mpc' = "price"
    /\ (status # "no data" /\ status' = "no data") => caught' = caught

\* C27: a fetch that gives nothing, an empty list of bars included, ends
\* the cycle: no analysis, no write to the log, no notification, no further
\* fetch, a sleep of 30 s and then a new cycle; nothing is raised
C27_NoDataSkipsTheCycle ==
    /\ [](GotNothing <=> status = "no data")
    /\ [](status = "no data" =>
            /\ manalysis = NoAnalysis
            /\ saves = 0
            /\ sends = 0
            /\ EndedAtAFetch
            /\ nap = 30
            /\ mpc \in {"sleep", "stopped"})
    /\ [][NoDataStaysPut]_vars
    /\ \A c \in 1..(MaxCycles - 1) :
          (status = "no data" /\ cycle = c /\ ~cancel)
              ~> (cycle = c + 1 \/ cancel)

\* C27 witness: the first cycle of a loop with a notifier got an empty list
\* of bars and sleeps 30 s
C27_Witness ==
    /\ got = "empty"
    /\ status = "no data"
    /\ cycle = 1
    /\ telegram
    /\ mpc = "sleep"
    /\ nap = 30

\* ---------------------------------------------------------------------
\* run_monitor_async: one monitor_symbol task for each entry of SYMBOLS
\* ---------------------------------------------------------------------

\* values of the SYMBOL setting between two commas
RawTokens == {"BTCUSDT", "btcusdt", " ETHUSDT", ""}

\* s.strip().upper() of a token
strip_upper(s) ==
    CASE s = "BTCUSDT" -> "BTCUSDT"
      [] s = "btcusdt" -> "BTCUSDT"
      [] s = " ETHUSDT" -> "ETHUSDT"
      [] OTHER -> ""

\* the tokens that are not blank
RECURSIVE NotBlank(_)
NotBlank(raw) ==
    IF raw = <<>> THEN <<>>
    ELSE IF strip_upper(Head(raw)) = "" THEN NotBlank(Tail(raw))
    ELSE <<Head(raw)>> \o NotBlank(Tail(raw))

\* settings.SYMBOLS: the cleaned tokens, in order, blank ones dropped
SYMBOLS(raw) == [i \in DOMAIN NotBlank(raw) |-> strip_upper(NotBlank(raw)[i])]

\* every file is the default log
LogPath_Shared(symbol) == <<"signals_log", ".json">>

\* SignalStorage(symbol=symbol).filepath
LogPath(symbol) == <<"signals_", symbol, ".json">>

\* TelegramNotifier(bot_token, chat_id): the bot exists only when both are
\* given and its construction did not fail
Notifiers ==
    {[bot_token |-> b, chat_id |-> c, bot |-> o] :
        b \in {"", "token"}, c \in {"", "chat"}, o \in {"Bot", "None"}}

TelegramNotifier ==
    {n \in Notifiers : n.bot = "Bot" => (n.bot_token # "" /\ n.chat_id # "")}

\* TelegramNotifier.is_enabled
is_enabled(n) == n.bot # "None"

\* asyncio.create_task(monitor_symbol(symbol, telegram)), not yet run
NewTask(symbol) ==
    [symbol |-> symbol, client |-> None, filepath |-> <<>>,
     pc |-> "created", notified |-> FALSE]

InitTasks ==
    /\ \E raw \in UNION {[1..n -> RawTokens] : n \in 0..MaxSymbols} :
        /\ symbols = SYMBOLS(raw)
        /\ tasks = [i \in DOMAIN SYMBOLS(raw) |-> NewTask(SYMBOLS(raw)[i])]
    /\ touched = {}
    /\ notifier \in TelegramNotifier
    /\ ScorerIdle
    /\ SeriesIdle
    /\ StorageIdle
    /\ RetryIdle
    /\ MonitorIdle

\* the task starts: it builds its BinanceClient and its SignalStorage
StartTask(t) ==
    /\ tasks[t].pc = "created"
    /\ tasks' = [tasks EXCEPT ![t].pc = "running",
                              ![t].client = t,
                              ![t].filepath = LogPath(tasks[t].symbol)]
    /\ UNCHANGED <<symbols, touched, notifier>>
    /\ UNCHANGED outsideTasks

\* a poll cycle with an entry signal: save_signal reads and writes the
\* task's log file
TaskSaves(t) ==
    /\ tasks[t].pc = "running"
    /\ touched' = touched \cup {[path |-> tasks[t].filepath, task |-> t]}
    /\ UNCHANGED <<symbols, tasks, notifier>>
    /\ UNCHANGED outsideTasks

\* the task sends its signal through the shared notifier
TaskNotifies(t) ==
    /\ tasks[t].pc = "running"
    /\ is_enabled(notifier)
    /\ [path |-> tasks[t].filepath, task |-> t] \in touched
    /\ tasks' = [tasks EXCEPT ![t].notified = TRUE]
    /\ UNCHANGED <<symbols, touched, notifier>>
    /\ UNCHANGED outsideTasks

\* task.cancel() on shutdown
CancelTask(t) ==
    /\ tasks[t].pc \in {"created", "running"}
    /\ tasks' = [tasks EXCEPT ![t].pc = "stopped"]
    /\ UNCHANGED <<symbols, touched, notifier>>
    /\ UNCHANGED outsideTasks

NextTasks ==
    \E t \in DOMAIN tasks :
        \/ StartTask(t)
        \/ TaskSaves(t)
        \/ TaskNotifies(t)
        \/ CancelTask(t)

SpecTasks == InitTasks /\ [][NextTasks]_vars

\* the tasks that have built their client and storage
Started == {t \in DOMAIN tasks : tasks[t].client # None}

\* no symbol occurs twice in SYMBOLS
NoRepeats == \A i, j \in DOMAIN symbols : symbols[i] = symbols[j] => i = j

\* every started task has a client of its own
OwnClients == \A t, u \in Started : tasks[t].client = tasks[u].client => t = u

\* every started task has a log file of its own, and no file was read or
\* written by two tasks
OwnLogFiles ==
    /\ \A t, u \in Started : tasks[t].filepath = tasks[u].filepath => t = u
    /\ \A x, y \in touched : x.path = y.path => x.task = y.task

\* two started tasks have the same log file exactly when they have the same symbol
SameFileIffSameSymbol ==
    \A t, u \in Started :
        tasks[t].filepath = tasks[u].filepath <=> tasks[t].symbol = tasks[u].symbol

\* no step changes a field of the notifier
NotifierKept == [][notifier' = notifier]_vars

\* C23: for every SYMBOLS list each task has its own client and its own log
\* file, no file is read or written by two tasks, and no task changes the notifier
C23_TasksOwnDisjointState == [](OwnClients /\ OwnLogFiles) /\ NotifierKept

\* C23 (amended): each task has its own client and no task changes the
\* notifier; tasks share a log file exactly when they have the same symbol,
\* so for a SYMBOLS list without repeats no file is read or written by two tasks
C23_DisjointWithoutRepeats ==
    /\ [](OwnClients /\ SameFileIffSameSymbol /\ (NoRepeats => OwnLogFiles))
    /\ NotifierKept

\* two tasks of different symbols have both saved and notified
C23_Witness ==
    /\ Len(symbols) = 2
    /\ symbols[1] # symbols[2]
    /\ \A t \in {1, 2} :
        /\ [path |-> tasks[t].filepath, task |-> t] \in touched
        /\ tasks[t].notified

\* ---------------------------------------------------------------------
\* calculate_rsi over rolling means of gains and losses (src/monitor_btc.py)
\* Floats are exact fractions, or one of nan, inf and -inf.
\* ---------------------------------------------------------------------

Finite(n, d) == [kind |-> "finite", num |-> n, den |-> d]

NaN == [kind |-> "nan", num |-> 0, den |-> 1]

PlusInf == [kind |-> "inf", num |-> 1, den |-> 0]

MinusInf == [kind |-> "-inf", num |-> -1, den |-> 0]

IsFinite(x) == x.kind = "finite"

\* -x
FNeg(x) ==
    CASE x.kind = "finite" -> Finite(0 - x.num, x.den)
      [] x.kind = "inf" -> MinusInf
      [] x.kind = "-inf" -> PlusInf
      [] OTHER -> NaN

\* x + y
FAdd(x, y) ==
    CASE x.kind = "nan" \/ y.kind = "nan" -> NaN
      [] IsFinite(x) /\ IsFinite(y) ->
            Finite(x.num * y.den + y.num * x.den, x.den * y.den)
      [] IsFinite(x) -> y
      [] IsFinite(y) -> x
      [] x.kind = y.kind -> x
      [] OTHER -> NaN

\* x / y of floats: a division by zero gives an infinity or nan, no exception
FDiv(x, y) ==
    CASE x.kind = "nan" \/ y.kind = "nan" -> NaN
      [] IsFinite(x) /\ IsFinite(y) ->
            IF y.num = 0
            THEN (IF x.num = 0 THEN NaN
                  ELSE IF x.num > 0 THEN PlusInf ELSE MinusInf)
            ELSE IF y.num > 0
                 THEN Finite(x.num * y.den, x.den * y.num)
                 ELSE Finite(0 - x.num * y.den, 0 - x.den * y.num)
      [] IsFinite(x) -> Finite(0, 1)
      [] IsFinite(y) -> IF y.num >= 0 THEN x ELSE FNeg(x)
      [] OTHER -> NaN

\* prices.diff(): nan for the first price
diff(p, i) == IF i = 1 THEN NaN ELSE Finite(p[i] - p[i - 1], 1)

\* every change counts as a gain, a fall as a negative one
gain_at_Unclipped(p, i) ==
    IF IsFinite(diff(p, i)) THEN diff(p, i).num ELSE 0

\* deltas.where(deltas > 0, 0)
gain_at(p, i) ==
    IF IsFinite(diff(p, i)) /\ diff(p, i).num > 0 THEN diff(p, i).num ELSE 0

\* -deltas.where(deltas < 0, 0)
loss_at(p, i) ==
    IF IsFinite(diff(p, i)) /\ diff(p, i).num < 0 THEN 0 - diff(p, i).num ELSE 0

RECURSIVE SumOver(_, _, _)
SumOver(v, from, to) ==
    IF from > to THEN 0 ELSE v[from] + SumOver(v, from + 1, to)

\* v.rolling(window=period).mean().iloc[-1]: nan with fewer than period values
rolling_mean_last(v, period) ==
    IF Len(v) < period THEN NaN
    ELSE Finite(SumOver(v, Len(v) - period + 1, Len(v)), period)

\* BinanceMonitor.calculate_rsi, with the two averages it divides
calculate_rsi(p, period) ==
    LET gain == rolling_mean_last([i \in DOMAIN p |-> gain_at(p, i)], period)
        loss == rolling_mean_last([i \in DOMAIN p |-> loss_at(p, i)], period)
        rs == FDiv(gain, loss)
    IN  [gain |-> gain, loss |-> loss,
         rsi |-> FAdd(Finite(100, 1),
                      FNeg(FDiv(Finite(100, 1), FAdd(Finite(1, 1), rs))))]

PriceLevels == {Usd(100), Usd(98), Usd(103)}

PriceSeries == UNION {[1..n -> PriceLevels] : n \in 1..MaxPrices}

InitRsi ==
    /\ closes \in PriceSeries
    /\ hparams \in [period : {2, 3}]
    /\ rsi_last = <<>>
    /\ hpc = "call"
    /\ df = <<>>
    /\ sr = <<>>
    /\ drops = <<>>
    /\ recovery = <<>>
    /\ columns = {}
    /\ ScorerIdle
    /\ IoIdle

\* one call of calculate_rsi
CalculateRsi ==
    /\ hpc = "call"
    /\ rsi_last' = calculate_rsi(closes, hparams.period)
    /\ hpc' = "rsi"
    /\ UNCHANGED <<df, hparams, sr, drops, recovery, columns, closes>>
    /\ UNCHANGED outsideSeries

NextRsi == CalculateRsi

SpecRsi == InitRsi /\ [][NextRsi]_vars

RsiDone == hpc = "rsi"

\* both averages are finite and the average loss is positive
AveragesUsable ==
    /\ IsFinite(rsi_last.gain)
    /\ IsFinite(rsi_last.loss)
    /\ rsi_last.loss.num > 0

\* C25: the RSI lies within [0, 100] whenever the average gain and the
\* average loss are finite and the average loss is positive
C25_RsiWithinBounds ==
    (RsiDone /\ AveragesUsable) =>
        /\ IsFinite(rsi_last.rsi)
        /\ rsi_last.rsi.den > 0
        /\ FracGE(rsi_last.rsi, 0)
        /\ FracLE(rsi_last.rsi, 100)

\* a series with gains and losses in the window: the RSI is strictly inside
C25_Witness ==
    /\ RsiDone
    /\ AveragesUsable
    /\ rsi_last.gain.num > 0
    /\ ~FracLE(rsi_last.rsi, 0)
    /\ ~FracGE(rsi_last.rsi, 100)
====
